---- MODULE Spec2Model ----
\* Model of ExecutableSignaturePrivate::verify(const std::string&) from
\* src/common/utils/executable_signature/executablesignature_linux.cpp.
\*
\* Every statement group of verify is one action of a thread; the values that
\* fopen/fread return are determined by the (read-only) file system, the values
\* that OpenSSL calls return are inputs chosen by the environment. The model
\* admits more than OpenSSL 3 does: there, on the key-less context that line 138
\* creates, EVP_PKEY_verify_init already returns 0 ("no key set") and every
\* call ends at line 146; here the set-up calls of lines 144-162 may also
\* return 1, which covers the statements after them.
EXTENDS Integers, Sequences, FiniteSets, TLC

\* ------------------------------------------------------------------ bounds
\* Total number of verify calls started, over all threads.
MaxCalls == 2

\* ------------------------------------------------------- program constants
MaxKeySize == 800
SigSize == 512
fileDataSize == 65536

Threads == {"t1", "t2"}

\* ------------------------------------------------------------------- paths
\* A path is a sequence of one-character strings.
P_prog_bin == <<"/","a","/","b","/","p","r","o","g",".","b","i","n">>
P_prog == <<"/","a","/","b","/","p","r","o","g">>
S_prog_sig ==
  <<"/","a","/","b","/","s","i","g","n","a","t","u","r","e","s","/","p","r","o","g",".","s","i","g">>
S_prog_bin_sig ==
  <<"/","a","/","b","/","s","i","g","n","a","t","u","r","e","s","/","p","r","o","g",".","b","i","n",".","s","i","g">>

ExePaths == {P_prog_bin, P_prog}
AllPaths == ExePaths \cup {S_prog_sig, S_prog_bin_sig}

\* Index of the last occurrence of character c in s, 0 when there is none.
LastIndexOf(s, c) ==
  LET I == {i \in 1..Len(s) : s[i] = c}
  IN IF I = {} THEN 0 ELSE CHOOSE i \in I : \A j \in I : j <= i

\* boost::filesystem::path::parent_path (paths without repeated or trailing
\* separators).
parent_path(p) ==
  LET k == LastIndexOf(p, "/")
  IN IF k = 0 THEN <<>> ELSE IF k = 1 THEN <<"/">> ELSE SubSeq(p, 1, k - 1)

\* boost::filesystem::path::filename
filename(p) == SubSeq(p, LastIndexOf(p, "/") + 1, Len(p))

\* Variant of stem: the filename with its extension kept.
stem_keeps_extension(p) == filename(p)

\* boost::filesystem::path::stem : the filename without its last extension.
stem(p) ==
  LET f == filename(p)
      d == LastIndexOf(f, ".")
  IN IF f = <<".">> \/ f = <<".",".">> \/ d = 0 THEN f ELSE SubSeq(f, 1, d - 1)

\* stream << parent_path << "/signatures/" << stem << ".sig"
SigFilePath(p) ==
  parent_path(p) \o <<"/","s","i","g","n","a","t","u","r","e","s","/">>
                 \o stem(p) \o <<".","s","i","g">>

\* ------------------------------------------------------------------- files
\* A file is a record; a target's contents are a sequence of chunks of at most
\* fileDataSize bytes, a signature file is a blob of len bytes that is the
\* signature made by `signer` over the digest `over` (signer "" : no valid
\* signature of anything).
NoFile == [exists |-> FALSE, chunks |-> <<>>, len |-> 0, signer |-> "", over |-> <<>>]
DataFile(c) == [exists |-> TRUE, chunks |-> c, len |-> 0, signer |-> "", over |-> <<>>]
SigFile(n, who, d) == [exists |-> TRUE, chunks |-> <<>>, len |-> n, signer |-> who, over |-> d]

\* SHA-256, idealised as collision free: the digest names the bytes absorbed.
SHA256(absorbed) == <<"sha256">> \o absorbed

Content0 == <<"x">>
Content1 == <<"y">>            \* Content0 with one bit flipped
Content2 == <<"x", "z">>       \* two chunks

\* The signature the matching private key makes over contents c.
Sign(c) == SigFile(SigSize, "embedded", SHA256(c))
\* Sign(c) with one bit flipped: 512 bytes that validate under no key.
Tampered(c) == SigFile(SigSize, "", SHA256(c))

\* ------------------------------------------------------------- embedded key
\* g_PublicKeyData as built: its size in bytes and whether it is the PEM text
\* of the public key.
KeyBuilds ==
  { [size |-> 800, pem |-> TRUE],      \* key.pub of a signed build
    [size |-> 0, pem |-> FALSE],       \* "" of an unsigned build
    [size |-> 451, pem |-> FALSE],     \* text that is no PEM public key
    [size |-> 801, pem |-> TRUE] }     \* larger than key.pub

\* --------------------------------------------------------------- diagnostics
\* One piece of text inserted into lastError_.
Msg(t, n, p, e) == [text |-> t, num |-> n, path |-> p, err |-> e]
Plain(t) == Msg(t, 0, <<>>, "")

MsgKeySize(n) == Msg("Invalid public key, size is too large", n, <<>>, "")
MsgBioAlloc == Plain("Failed to allocate an OpenSSL BIO buffer")
MsgBioWrite == Plain("Failed to write public key resource to bio")
MsgOpenExe(e) == Msg("Failed to open executable for reading", 0, <<>>, e)
MsgMdNew == Plain("Failed to create SHA256 context")
MsgMdInit == Plain("Failed to init SHA256 digest")
MsgMdUpdate == Plain("Failed to update SHA256 digest")
MsgMdFinal == Plain("Failed to finalize SHA256 digest")
MsgLoadKey == Plain("Failed to load RSA public key")
MsgCtxNew == Plain("Failed to create RSA context")
MsgVerifyInit == Plain("Failed to init RSA verify")
MsgPadding == Plain("Failed to init RSA padding")
MsgSigMd == Plain("Failed to set RSA signature digest")
MsgCheck == Plain("Failed to check RSA context")
MsgOpenSig(p, e) == Msg("Failed to open signature file", 0, p, e)
MsgSigSize(n) == Msg("Signature file is an invalid size, or failed to read entire file", n, <<>>, "")
MsgMismatch == Plain("Executable's signature does not match signature file")


\* ------------------------------------------------------------------- state
VARIABLES
  g_PublicKeyData,  \* the embedded key text (set by the build, never written)
  fs,               \* the file system: path -> file (never written)
  calls,            \* number of verify calls started
  pc,               \* per thread: the statement group it is at
  exePath,          \* per thread: the argument of the running call
  ok,               \* per thread: the value the last call returned
  lastError_,       \* per verifier object: the pieces inserted so far
  mark,             \* per thread: Len(lastError_) when the call started
  errno,            \* per thread (thread local)
  held,             \* per thread: resources acquired and not yet released
  pos,              \* per thread: chunks of datafile consumed by fread
  mdctx,            \* per thread: bytes absorbed by the digest context
  digest,           \* per thread: digest[]
  pkey,             \* per thread: the EVP_PKEY handle
  ctx,              \* per thread: the EVP_PKEY_CTX
  sigFile,          \* per thread: the derived signature path
  fileData,         \* per thread: the 64 KiB buffer
  bytesRead,        \* per thread
  rc,               \* per thread: value returned by each OpenSSL call made
  ioLog,            \* per thread: paths passed to fopen during the call
  trace             \* per thread: statement groups executed during the call

vars == <<g_PublicKeyData, fs, calls, pc, exePath, ok, lastError_, mark, errno,
          held, pos, mdctx, digest, pkey, ctx, sigFile, fileData, bytesRead,
          rc, ioLog, trace>>

shared == <<g_PublicKeyData, fs>>

\* Variant of Verifier: all threads call one verifier object.
Verifier_shared(t) == "t1"

\* The verifier object a thread calls: every caller constructs its own
\* ExecutableSignature, whose private part holds lastError_.
Verifier(t) == t

\* Values an OpenSSL call that reports success as 1 can return (a negative
\* value takes the branch of 0: the tests are != 1).
LibRet == {1, 0}

NoKey == "NULL"
NoCtx == [pkey |-> NoKey]

\* The files a build is run on: every combination for a signed build, the
\* target present or absent for the others.
Files ==
  { f \in [AllPaths -> { NoFile, DataFile(Content0), DataFile(Content1),
                         DataFile(Content2), SigFile(100, "", <<>>),
                         SigFile(70000, "", <<>>), Sign(Content0),
                         Sign(Content2), Tampered(Content0) }] :
      /\ f[P_prog_bin] \in {NoFile, DataFile(Content0), DataFile(Content1)}
      /\ f[P_prog] = DataFile(Content2)
      /\ f[S_prog_sig] \in { NoFile, SigFile(100, "", <<>>),
                             SigFile(70000, "", <<>>), Sign(Content0),
                             Sign(Content2), Tampered(Content0) }
      /\ f[S_prog_bin_sig] = Sign(Content0) }

Init ==
  /\ g_PublicKeyData \in KeyBuilds
  /\ fs \in Files
  /\ (g_PublicKeyData.pem /\ g_PublicKeyData.size <= MaxKeySize)
       \/ (fs[S_prog_sig] = Sign(Content0) /\ fs[P_prog_bin] # DataFile(Content1))
  /\ calls = 0
  /\ pc = [t \in Threads |-> "idle"]
  /\ exePath = [t \in Threads |-> <<>>]
  /\ ok = [t \in Threads |-> FALSE]
  /\ lastError_ = [t \in Threads |-> <<>>]
  /\ mark = [t \in Threads |-> 0]
  /\ errno = [t \in Threads |-> ""]
  /\ held = [t \in Threads |-> {}]
  /\ pos = [t \in Threads |-> 0]
  /\ mdctx = [t \in Threads |-> <<>>]
  /\ digest = [t \in Threads |-> <<>>]
  /\ pkey = [t \in Threads |-> NoKey]
  /\ ctx = [t \in Threads |-> NoCtx]
  /\ sigFile = [t \in Threads |-> <<>>]
  /\ fileData = [t \in Threads |-> NoFile]
  /\ bytesRead = [t \in Threads |-> 0]
  /\ rc = [t \in Threads |-> <<>>]
  /\ ioLog = [t \in Threads |-> <<>>]
  /\ trace = [t \in Threads |-> <<>>]

\* --------------------------------------------------------- library, by call
\* Variant of KeyTooLarge: the bound mistyped.
KeyTooLarge_wrong_bound(n) == n > 8000

\* pubKeyBytes.size() > 800
KeyTooLarge(n) == n > MaxKeySize

\* bioPublicKey.write(data, n): the bytes written, or 0 on failure; nothing
\* can be written of an empty text.
BIO_write(n) == IF n = 0 THEN {0} ELSE {n, 0}

\* PEM_read_bio_PUBKEY: the key the text encodes, or NULL.
PEM_read_bio_PUBKEY(key) == IF key.pem THEN {"embedded", NoKey} ELSE {NoKey}

\* EVP_PKEY_CTX_new_from_name(NULL, "RSA", NULL): a context for the algorithm
\* named, bound to no key.
EVP_PKEY_CTX_new_from_name == [pkey |-> NoKey]

\* EVP_PKEY_verify(c, sig, siglen, tbs, tbslen): 1 when sig is the signature
\* of tbs under the key of the context, 0 when it is not, negative on an
\* error; a context without a key cannot validate anything.
EVP_PKEY_verify(c, sig, siglen, tbs) ==
  IF c.pkey = NoKey THEN {0, -1}
  ELSE IF siglen = SigSize /\ sig.signer = c.pkey /\ sig.over = tbs THEN {1}
  ELSE {0, -1}

\* Variant of VerifyOk: the result taken as a truth value.
VerifyOk_nonzero(result) == result # 0

\* return (result == 1)
VerifyOk(result) == result = 1

Min(a, b) == IF a < b THEN a ELSE b

\* Variant of NextStep: the key parsed right after it is written into the BIO,
\* before the target is opened.
NextStep_key_first(s) ==
  CASE s = "keysize" -> "bioalloc"
    [] s = "bioalloc" -> "biowrite"
    [] s = "biowrite" -> "pkey"
    [] s = "pkey" -> "fopen"
    [] s = "fopen" -> "mdnew"
    [] s = "mdnew" -> "mdinit"
    [] s = "mdinit" -> "hash"
    [] s = "hash" -> "mdfinal"
    [] s = "mdfinal" -> "ctxnew"
    [] s = "ctxnew" -> "verifyinit"
    [] s = "verifyinit" -> "padding"
    [] s = "padding" -> "sigmd"
    [] s = "sigmd" -> "check"
    [] s = "check" -> "sigopen"
    [] s = "sigopen" -> "sigread"
    [] s = "sigread" -> "verify"
    [] OTHER -> "done"

\* The order of the statement groups of verify, as written.
NextStep(s) ==
  CASE s = "keysize" -> "bioalloc"
    [] s = "bioalloc" -> "biowrite"
    [] s = "biowrite" -> "fopen"
    [] s = "fopen" -> "mdnew"
    [] s = "mdnew" -> "mdinit"
    [] s = "mdinit" -> "hash"
    [] s = "hash" -> "mdfinal"
    [] s = "mdfinal" -> "pkey"
    [] s = "pkey" -> "ctxnew"
    [] s = "ctxnew" -> "verifyinit"
    [] s = "verifyinit" -> "padding"
    [] s = "padding" -> "sigmd"
    [] s = "sigmd" -> "check"
    [] s = "check" -> "sigopen"
    [] s = "sigopen" -> "sigread"
    [] s = "sigread" -> "verify"
    [] OTHER -> "done"

\* ------------------------------------------------------------ action pieces
\* lastError_ << m; return false;
Fail(t, m) ==
  /\ lastError_' = [lastError_ EXCEPT ![Verifier(t)] = Append(@, m)]
  /\ ok' = [ok EXCEPT ![t] = FALSE]
  /\ pc' = [pc EXCEPT ![t] = "done"]

\* fall through to the next statement group
Continue(t) ==
  /\ pc' = [pc EXCEPT ![t] = NextStep(pc[t])]
  /\ UNCHANGED <<lastError_, ok>>

\* bookkeeping of the step taken
Took(t) ==
  trace' = [trace EXCEPT ![t] =
              IF @ # <<>> /\ @[Len(@)] = pc[t] THEN @ ELSE Append(@, pc[t])]
Returned(t, site, code) == rc' = [rc EXCEPT ![t] = (site :> code) @@ @]

\* An OpenSSL call whose only effect here is its result: fail with m unless 1.
LibStep(t, site, m) ==
  /\ pc[t] = site
  /\ \E r \in LibRet :
       /\ Returned(t, site, r)
       /\ IF r # 1 THEN Fail(t, m) ELSE Continue(t)
  /\ Took(t)


\* ----------------------------------------------------------------- actions
\* A caller invokes verify(p) on its verifier.
Call(t, p) ==
  /\ pc[t] \in {"idle", "done"}
  /\ calls < MaxCalls
  /\ calls' = calls + 1
  /\ pc' = [pc EXCEPT ![t] = "keysize"]
  /\ exePath' = [exePath EXCEPT ![t] = p]
  /\ mark' = [mark EXCEPT ![t] = Len(lastError_[Verifier(t)])]
  /\ ok' = [ok EXCEPT ![t] = FALSE]
  /\ pos' = [pos EXCEPT ![t] = 0]
  /\ mdctx' = [mdctx EXCEPT ![t] = <<>>]
  /\ digest' = [digest EXCEPT ![t] = <<>>]
  /\ pkey' = [pkey EXCEPT ![t] = NoKey]
  /\ ctx' = [ctx EXCEPT ![t] = NoCtx]
  /\ sigFile' = [sigFile EXCEPT ![t] = <<>>]
  /\ fileData' = [fileData EXCEPT ![t] = NoFile]
  /\ bytesRead' = [bytesRead EXCEPT ![t] = 0]
  /\ rc' = [rc EXCEPT ![t] = <<>>]
  /\ ioLog' = [ioLog EXCEPT ![t] = <<>>]
  /\ trace' = [trace EXCEPT ![t] = <<>>]
  /\ UNCHANGED <<shared, lastError_, errno, held>>

\* lines 43-50: the size check of the key text
KeySizeCheck(t) ==
  /\ pc[t] = "keysize"
  /\ IF KeyTooLarge(g_PublicKeyData.size)
       THEN Fail(t, MsgKeySize(g_PublicKeyData.size))
       ELSE Continue(t)
  /\ Took(t)
  /\ UNCHANGED <<shared, calls, exePath, mark, errno, held, pos, mdctx, digest,
                 pkey, ctx, sigFile, fileData, bytesRead, rc, ioLog>>

\* lines 62-67: wsl::EvpBioCharBuf bioPublicKey; isValid()
BioAlloc(t) ==
  /\ LibStep(t, "bioalloc", MsgBioAlloc)
  /\ UNCHANGED <<shared, calls, exePath, mark, errno, held, pos, mdctx, digest,
                 pkey, ctx, sigFile, fileData, bytesRead, ioLog>>

\* lines 69-73: bioPublicKey.write(...) <= 0
BioWriteKey(t) ==
  /\ pc[t] = "biowrite"
  /\ \E w \in BIO_write(g_PublicKeyData.size) :
       /\ Returned(t, "biowrite", w)
       /\ IF w <= 0 THEN Fail(t, MsgBioWrite) ELSE Continue(t)
  /\ Took(t)
  /\ UNCHANGED <<shared, calls, exePath, mark, errno, held, pos, mdctx, digest,
                 pkey, ctx, sigFile, fileData, bytesRead, ioLog>>

\* lines 76-81: fopen(exePath, "rb")
OpenTarget(t) ==
  /\ pc[t] = "fopen"
  /\ ioLog' = [ioLog EXCEPT ![t] = Append(@, exePath[t])]
  /\ IF ~fs[exePath[t]].exists
       THEN /\ errno' = [errno EXCEPT ![t] = "ENOENT"]
            /\ Fail(t, MsgOpenExe("ENOENT"))
            /\ UNCHANGED held
       ELSE /\ held' = [held EXCEPT ![t] = @ \cup {"datafile"}]
            /\ Continue(t)
            /\ UNCHANGED errno
  /\ Took(t)
  /\ UNCHANGED <<shared, calls, exePath, mark, pos, mdctx, digest,
                 pkey, ctx, sigFile, fileData, bytesRead, rc>>

\* lines 86-90: EVP_MD_CTX_new()
DigestNew(t) ==
  /\ pc[t] = "mdnew"
  /\ \E r \in LibRet :
       /\ Returned(t, "mdnew", r)
       /\ IF r # 1
            THEN Fail(t, MsgMdNew) /\ UNCHANGED held
            ELSE Continue(t) /\ held' = [held EXCEPT ![t] = @ \cup {"mdctx"}]
  /\ Took(t)
  /\ UNCHANGED <<shared, calls, exePath, mark, errno, pos, mdctx, digest,
                 pkey, ctx, sigFile, fileData, bytesRead, ioLog>>

\* lines 92-98: EVP_DigestInit_ex(mdctx, EVP_sha256(), NULL)
DigestInit(t) ==
  /\ LibStep(t, "mdinit", MsgMdInit)
  /\ UNCHANGED <<shared, calls, exePath, mark, errno, held, pos, mdctx, digest,
                 pkey, ctx, sigFile, fileData, bytesRead, ioLog>>

\* lines 105-111: one turn of the loop, fread of a chunk and EVP_DigestUpdate;
\* fread returns 0 at the end of the file and the loop is left.
HashChunk(t) ==
  /\ pc[t] = "hash"
  /\ LET content == fs[exePath[t]].chunks IN
       IF pos[t] < Len(content)
         THEN /\ fileData' = [fileData EXCEPT ![t] = DataFile(<<content[pos[t] + 1]>>)]
              /\ bytesRead' = [bytesRead EXCEPT ![t] = fileDataSize]
              /\ pos' = [pos EXCEPT ![t] = @ + 1]
              /\ \E r \in LibRet :
                   /\ Returned(t, "mdupdate", r)
                   /\ IF r # 1
                        THEN Fail(t, MsgMdUpdate) /\ UNCHANGED mdctx
                        ELSE /\ mdctx' = [mdctx EXCEPT ![t] = Append(@, content[pos[t] + 1])]
                             /\ UNCHANGED <<pc, lastError_, ok>>
         ELSE /\ bytesRead' = [bytesRead EXCEPT ![t] = 0]
              /\ Continue(t)
              /\ UNCHANGED <<fileData, pos, mdctx, rc>>
  /\ Took(t)
  /\ UNCHANGED <<shared, calls, exePath, mark, errno, held, digest,
                 pkey, ctx, sigFile, ioLog>>

\* lines 113-121: EVP_DigestFinal_ex, EVP_MD_CTX_free, fclose
DigestFinal(t) ==
  /\ pc[t] = "mdfinal"
  /\ \E r \in LibRet :
       /\ Returned(t, "mdfinal", r)
       /\ IF r # 1
            THEN Fail(t, MsgMdFinal) /\ UNCHANGED <<held, digest>>
            ELSE /\ digest' = [digest EXCEPT ![t] = SHA256(mdctx[t])]
                 /\ held' = [held EXCEPT ![t] = @ \ {"mdctx", "datafile"}]
                 /\ Continue(t)
  /\ Took(t)
  /\ UNCHANGED <<shared, calls, exePath, mark, errno, pos, mdctx,
                 pkey, ctx, sigFile, fileData, bytesRead, ioLog>>

\* lines 126-134: PEM_read_bio_PUBKEY
LoadKey(t) ==
  /\ pc[t] = "pkey"
  /\ \E k \in PEM_read_bio_PUBKEY(g_PublicKeyData) :
       /\ pkey' = [pkey EXCEPT ![t] = k]
       /\ Returned(t, "pkey", IF k = NoKey THEN 0 ELSE 1)
       /\ IF k = NoKey
            THEN Fail(t, MsgLoadKey) /\ UNCHANGED held
            ELSE Continue(t) /\ held' = [held EXCEPT ![t] = @ \cup {"pkey"}]
  /\ Took(t)
  /\ UNCHANGED <<shared, calls, exePath, mark, errno, pos, mdctx, digest,
                 ctx, sigFile, fileData, bytesRead, ioLog>>

\* lines 136-142: EVP_PKEY_CTX_new_from_name
CtxNew(t) ==
  /\ pc[t] = "ctxnew"
  /\ \E r \in LibRet :
       /\ Returned(t, "ctxnew", r)
       /\ IF r # 1
            THEN Fail(t, MsgCtxNew) /\ UNCHANGED <<held, ctx>>
            ELSE /\ ctx' = [ctx EXCEPT ![t] = EVP_PKEY_CTX_new_from_name]
                 /\ held' = [held EXCEPT ![t] = @ \cup {"ctx"}]
                 /\ Continue(t)
  /\ Took(t)
  /\ UNCHANGED <<shared, calls, exePath, mark, errno, pos, mdctx, digest,
                 pkey, sigFile, fileData, bytesRead, ioLog>>

\* lines 144-147: EVP_PKEY_verify_init(ctx)
CtxVerifyInit(t) ==
  /\ LibStep(t, "verifyinit", MsgVerifyInit)
  /\ UNCHANGED <<shared, calls, exePath, mark, errno, held, pos, mdctx, digest,
                 pkey, ctx, sigFile, fileData, bytesRead, ioLog>>

\* lines 149-152: EVP_PKEY_CTX_set_rsa_padding(ctx, RSA_PKCS1_PADDING)
CtxSetPadding(t) ==
  /\ LibStep(t, "padding", MsgPadding)
  /\ UNCHANGED <<shared, calls, exePath, mark, errno, held, pos, mdctx, digest,
                 pkey, ctx, sigFile, fileData, bytesRead, ioLog>>

\* lines 154-157: EVP_PKEY_CTX_set_signature_md(ctx, EVP_sha256())
CtxSetMd(t) ==
  /\ LibStep(t, "sigmd", MsgSigMd)
  /\ UNCHANGED <<shared, calls, exePath, mark, errno, held, pos, mdctx, digest,
                 pkey, ctx, sigFile, fileData, bytesRead, ioLog>>

\* lines 159-162: EVP_PKEY_check(ctx)
CtxCheck(t) ==
  /\ LibStep(t, "check", MsgCheck)
  /\ UNCHANGED <<shared, calls, exePath, mark, errno, held, pos, mdctx, digest,
                 pkey, ctx, sigFile, fileData, bytesRead, ioLog>>

\* lines 164-175: derive the signature path, fopen(sigFile, "r")
OpenSignature(t) ==
  /\ pc[t] = "sigopen"
  /\ LET f == SigFilePath(exePath[t]) IN
       /\ sigFile' = [sigFile EXCEPT ![t] = f]
       /\ ioLog' = [ioLog EXCEPT ![t] = Append(@, f)]
       /\ IF f \notin DOMAIN fs \/ ~fs[f].exists
            THEN /\ errno' = [errno EXCEPT ![t] = "ENOENT"]
                 /\ Fail(t, MsgOpenSig(f, "ENOENT"))
                 /\ UNCHANGED held
            ELSE /\ held' = [held EXCEPT ![t] = @ \cup {"sign"}]
                 /\ Continue(t)
                 /\ UNCHANGED errno
  /\ Took(t)
  /\ UNCHANGED <<shared, calls, exePath, mark, pos, mdctx, digest,
                 pkey, ctx, fileData, bytesRead, rc>>

\* lines 177-185: fread(fileData, 1, fileDataSize, sign); fclose(sign);
\* bytesRead != 512
ReadSignature(t) ==
  /\ pc[t] = "sigread"
  /\ LET n == Min(fs[sigFile[t]].len, fileDataSize) IN
       /\ bytesRead' = [bytesRead EXCEPT ![t] = n]
       /\ fileData' = [fileData EXCEPT ![t] = fs[sigFile[t]]]
       /\ held' = [held EXCEPT ![t] = @ \ {"sign"}]
       /\ IF n # SigSize THEN Fail(t, MsgSigSize(n)) ELSE Continue(t)
  /\ Took(t)
  /\ UNCHANGED <<shared, calls, exePath, mark, errno, pos, mdctx, digest,
                 pkey, ctx, sigFile, rc, ioLog>>

\* lines 187-197: EVP_PKEY_verify, EVP_PKEY_CTX_free, return (result == 1)
Verify(t) ==
  /\ pc[t] = "verify"
  /\ \E result \in EVP_PKEY_verify(ctx[t], fileData[t], bytesRead[t], digest[t]) :
       /\ Returned(t, "verify", result)
       /\ lastError_' = [lastError_ EXCEPT ![Verifier(t)] =
                           IF result # 1 THEN Append(@, MsgMismatch) ELSE @]
       /\ ok' = [ok EXCEPT ![t] = VerifyOk(result)]
  /\ held' = [held EXCEPT ![t] = @ \ {"ctx"}]
  /\ pc' = [pc EXCEPT ![t] = NextStep(pc[t])]
  /\ Took(t)
  /\ UNCHANGED <<shared, calls, exePath, mark, errno, pos, mdctx, digest,
                 pkey, ctx, sigFile, fileData, bytesRead, ioLog>>

Next ==
  \E t \in Threads :
    \/ \E p \in ExePaths : Call(t, p)
    \/ KeySizeCheck(t)
    \/ BioAlloc(t)
    \/ BioWriteKey(t)
    \/ OpenTarget(t)
    \/ DigestNew(t)
    \/ DigestInit(t)
    \/ HashChunk(t)
    \/ DigestFinal(t)
    \/ LoadKey(t)
    \/ CtxNew(t)
    \/ CtxVerifyInit(t)
    \/ CtxSetPadding(t)
    \/ CtxSetMd(t)
    \/ CtxCheck(t)
    \/ OpenSignature(t)
    \/ ReadSignature(t)
    \/ Verify(t)

Spec == Init /\ [][Next]_vars


\* ------------------------------------------------- verify as one function
\* The whole of verify(p) run alone, start to end, on the key and the files as
\* they are, r giving the value each OpenSSL call returns (1 where r is
\* silent): the value returned and the pieces inserted into lastError_.
verifySeq(p, r) ==
  LET key == g_PublicKeyData
      G(site) == IF site \in DOMAIN r THEN r[site] ELSE 1
      sf == SigFilePath(p)
      n == IF sf \in DOMAIN fs THEN Min(fs[sf].len, fileDataSize) ELSE 0
      F(m) == <<FALSE, <<m>>>>
  IN IF KeyTooLarge(key.size) THEN F(MsgKeySize(key.size))
     ELSE IF G("bioalloc") # 1 THEN F(MsgBioAlloc)
     ELSE IF G("biowrite") <= 0 THEN F(MsgBioWrite)
     ELSE IF ~fs[p].exists THEN F(MsgOpenExe("ENOENT"))
     ELSE IF G("mdnew") # 1 THEN F(MsgMdNew)
     ELSE IF G("mdinit") # 1 THEN F(MsgMdInit)
     ELSE IF fs[p].chunks # <<>> /\ G("mdupdate") # 1 THEN F(MsgMdUpdate)
     ELSE IF G("mdfinal") # 1 THEN F(MsgMdFinal)
     ELSE IF G("pkey") # 1 THEN F(MsgLoadKey)
     ELSE IF G("ctxnew") # 1 THEN F(MsgCtxNew)
     ELSE IF G("verifyinit") # 1 THEN F(MsgVerifyInit)
     ELSE IF G("padding") # 1 THEN F(MsgPadding)
     ELSE IF G("sigmd") # 1 THEN F(MsgSigMd)
     ELSE IF G("check") # 1 THEN F(MsgCheck)
     ELSE IF sf \notin DOMAIN fs \/ ~fs[sf].exists THEN F(MsgOpenSig(sf, "ENOENT"))
     ELSE IF n # SigSize THEN F(MsgSigSize(n))
     ELSE IF G("verify") # 1 THEN F(MsgMismatch)
     ELSE <<TRUE, <<>>>>

\* --------------------------------------------------------------- vocabulary
Done(t) == pc[t] = "done"
Running(t) == pc[t] \notin {"idle", "done"}

\* What the call of t inserted into lastError_.
Diag(t) ==
  LET e == lastError_[Verifier(t)]
  IN SubSeq(e, mark[t] + 1, Len(e))

Called(t, site) == site \in DOMAIN rc[t]

\* The calls that allocate, hash or parse (none of them takes the RSA context)
\* all returned success.
ResourceSites == {"bioalloc", "biowrite", "mdnew", "mdinit", "mdupdate", "mdfinal",
                  "pkey", "ctxnew"}
NoResourceFailure(t) == \A site \in DOMAIN rc[t] \cap ResourceSites : rc[t][site] >= 1

\* Every OpenSSL call made so far returned success.
AllSucceeded(t) ==
  \A site \in DOMAIN rc[t] : IF site = "verify" THEN rc[t][site] = 1 ELSE rc[t][site] >= 1

\* The build embeds the public key, within the size bound.
SignedBuild == g_PublicKeyData.pem /\ g_PublicKeyData.size <= MaxKeySize

\* The file at the signature path of p is the 512-byte signature, by the key
\* embedded, of the SHA-256 digest of the file at p.
ValidPair(p) ==
  LET sf == SigFilePath(p) IN
    /\ fs[p].exists
    /\ sf \in DOMAIN fs
    /\ fs[sf].exists
    /\ fs[sf].len = SigSize
    /\ fs[sf].signer = "embedded"
    /\ fs[sf].over = SHA256(fs[p].chunks)

IsPrefix(a, b) == Len(a) <= Len(b) /\ \A i \in 1..Len(a) : a[i] = b[i]
Range(a) == {a[i] : i \in 1..Len(a)}

\* The statement groups of verify in the order of the source text.
CodeOrder ==
  <<"keysize", "bioalloc", "biowrite", "fopen", "mdnew", "mdinit", "hash", "mdfinal",
    "pkey", "ctxnew", "verifyinit", "padding", "sigmd", "check", "sigopen", "sigread",
    "verify">>


\* ------------------------------------------------------------------- claims

\* C1: a call on a readable target whose signature file holds the 512-byte
\* signature made by the matching private key over the target's SHA-256 digest,
\* in a signed build and with no allocation, hashing or parsing failure,
\* returns true.
C1_ValidSignatureAccepted ==
  \A t \in Threads :
    (Done(t) /\ SignedBuild /\ ValidPair(exePath[t]) /\ NoResourceFailure(t)) => ok[t]

\* C2: a call returns true only if every step succeeded and the signature file
\* holds the 512-byte signature, under the embedded key, of the digest of the
\* whole target file; in every other case it returns false.
C2_TrueOnlyIfValid ==
  \A t \in Threads :
    (Done(t) /\ ok[t]) =>
      /\ SignedBuild
      /\ AllSucceeded(t)
      /\ Called(t, "verify")
      /\ ValidPair(exePath[t])

\* C2 witness: the cryptographic check ran on a target with a flipped bit, the
\* signature being the one of the original bytes, and the call returned false.
C2_Witness ==
  \E t \in Threads :
    /\ Done(t) /\ ~ok[t] /\ Called(t, "verify")
    /\ fs[exePath[t]] = DataFile(Content1)
    /\ fs[sigFile[t]] = Sign(Content0)

\* C3: once a call has returned, nothing it acquired (target file handle,
\* signature file handle, digest context, key handle, RSA context) is held.
C3_NothingHeldAfterReturn ==
  \A t \in Threads : ~Running(t) => held[t] = {}

\* C4: with a key text longer than 800 bytes a call returns false with the
\* key-size diagnostic, and at no point of the call is any file opened.
C4_OversizeKeyNoFileOpened ==
  \A t \in Threads :
    g_PublicKeyData.size > MaxKeySize =>
      /\ ioLog[t] = <<>>
      /\ Done(t) => (~ok[t] /\ Diag(t) = <<MsgKeySize(g_PublicKeyData.size)>>)

\* C4 witness: a call returned in a build whose key text is longer than 800.
C4_Witness ==
  \E t \in Threads :
    Done(t) /\ g_PublicKeyData.size > MaxKeySize /\ ~ok[t] /\ trace[t] = <<"keysize">>

\* C5: in a signed build, the target opened and hashed, no allocation or
\* parsing failure, and a signature file that exists with a length other than
\* 512: the call returns false with the length diagnostic reporting the byte
\* count, and EVP_PKEY_verify is never called.
C5_WrongLengthRejected ==
  \A t \in Threads :
    LET sf == SigFilePath(exePath[t]) IN
    ( /\ Done(t) /\ SignedBuild /\ NoResourceFailure(t)
      /\ Called(t, "mdfinal")
      /\ fs[sf].exists /\ fs[sf].len # SigSize )
    => /\ ~ok[t]
       /\ Diag(t) = <<MsgSigSize(Min(fs[sf].len, fileDataSize))>>
       /\ ~Called(t, "verify")

\* C6 as claimed: for the target /a/b/prog.bin the signature path derived and
\* opened is /a/b/signatures/prog.bin.sig.
C6_SigPathKeepsExtension ==
  \A t \in Threads :
    (exePath[t] = P_prog_bin /\ sigFile[t] # <<>>) =>
      /\ sigFile[t] = S_prog_bin_sig
      /\ ioLog[t] = <<P_prog_bin, S_prog_bin_sig>>

\* C6 as amended: for the target /a/b/prog.bin the signature path derived and
\* opened is /a/b/signatures/prog.sig.
C6_SigPathUsesStem ==
  \A t \in Threads :
    (exePath[t] = P_prog_bin /\ sigFile[t] # <<>>) =>
      /\ sigFile[t] = S_prog_sig
      /\ ioLog[t] = <<P_prog_bin, S_prog_sig>>

\* C6 witness: a call on /a/b/prog.bin has derived and opened its signature file.
C6_Witness ==
  \E t \in Threads :
    exePath[t] = P_prog_bin /\ pc[t] = "sigread" /\ sigFile[t] = S_prog_sig

\* C7: when EVP_PKEY_verify reports an error (a negative result) the call
\* returns false with a diagnostic other than the one of a signature mismatch.
C7_InternalErrorDistinct ==
  \A t \in Threads :
    (Done(t) /\ Called(t, "verify") /\ rc[t]["verify"] < 0) =>
      (~ok[t] /\ Diag(t) # <<MsgMismatch>>)

C9_OnlyLatestReason ==
  \A t \in Threads :
    Done(t) =>
      /\ lastError_[Verifier(t)] = Diag(t)
      /\ Len(lastError_[Verifier(t)]) = IF ok[t] THEN 0 ELSE 1

\* C10 as claimed: the key is parsed into a key handle before the target file
\* is opened; a call in a build whose key text does not parse returns the key
\* diagnostic without having opened the target.
C10_KeyParsedBeforeTargetOpened ==
  \A t \in Threads :
    /\ "fopen" \in Range(trace[t]) => "pkey" \in Range(trace[t])
    /\ ( /\ Done(t) /\ ~g_PublicKeyData.pem /\ g_PublicKeyData.size > 0
         /\ g_PublicKeyData.size <= MaxKeySize /\ NoResourceFailure(t) )
       => (Diag(t) = <<MsgLoadKey>> /\ ioLog[t] = <<>>)

\* C10 as amended: the steps run in the order size check, key text into the
\* BIO, open target, hash, parse key, create and set up the RSA context, derive
\* and open the signature file, read it, verify; each step starts only after
\* every earlier one succeeded; the key diagnostic of a failed parse is returned
\* only after the target was opened, hashed and closed.
C10_CodeOrder ==
  \A t \in Threads :
    /\ IsPrefix(trace[t], CodeOrder)
    /\ Running(t) => AllSucceeded(t)
    /\ (Done(t) /\ Diag(t) = <<MsgLoadKey>>) =>
         /\ ioLog[t] = <<exePath[t]>>
         /\ Called(t, "mdfinal") /\ rc[t]["mdfinal"] = 1
         /\ "datafile" \notin held[t]

\* C10 witness: a call failed to parse the key text, after hashing the target.
C10_Witness ==
  \E t \in Threads :
    Done(t) /\ Diag(t) = <<MsgLoadKey>> /\ ~g_PublicKeyData.pem /\ ioLog[t] = <<exePath[t]>>

====
